---- MODULE Spec2Model ----
(***************************************************************************)
(* Model of src/app.py: SitemapExtractor.extract_urls_from_sitemap (the    *)
(* recursive sitemap resolver) and URLStatusChecker (the probe and the     *)
(* batch scheduler built on concurrent.futures.ThreadPoolExecutor).        *)
(***************************************************************************)
EXTENDS Integers, Sequences, FiniteSets, TLC

(***************************************************************************)
(* Bounds of the model.                                                    *)
(***************************************************************************)
\* most <loc> entries in all the documents of the web together
MaxLocs == 3
\* largest max_depth argument tried
MaxDepthArg == 2
\* most URLs handed to batch_url_status_check
MaxUrls == 3
\* largest max_workers tried
MaxWorkers == 2
\* most URLs handed to _sample_urls and to the batching when explored alone
MaxSampleUrls == 5

(***************************************************************************)
(* Generic helpers.                                                        *)
(***************************************************************************)
Range(s) == {s[i] : i \in 1..Len(s)}

SeqsUpTo(S, n) == UNION {[1..k -> S] : k \in 0..n}

\* all duplicate-free sequences whose elements are exactly the set S
Orderings(S) == {s \in [1..Cardinality(S) -> S] : Range(s) = S}

(***************************************************************************)
(* The web the resolver reads.  A location is a string; fetching a sitemap *)
(* location gives a document or fails.  A document is malformed XML or a   *)
(* sequence of <loc> elements, each the child of a <url> or of a <sitemap> *)
(* element, with a text or without one (text None).                        *)
(***************************************************************************)
RootUrl == "r"
SitemapLocs == {"r", "a", "b"}
PageLocs == {"p", "q"}
None == "None"

LocEntries == [tag : {"url"}, text : PageLocs]
                \cup [tag : {"sitemap"}, text : SitemapLocs \cup {None}]

Documents(n) == {[fetch |-> "fails", xml |-> "ok", locs |-> <<>>],
                 [fetch |-> "ok", xml |-> "malformed", locs |-> <<>>]}
                  \cup [fetch : {"ok"}, xml : {"ok"}, locs : SeqsUpTo(LocEntries, n)]

Unfetched == [fetch |-> "unfetched", xml |-> "ok", locs |-> <<>>]

VARIABLES
    recursive,      \* argument of extract_urls_from_sitemap
    max_depth,      \* argument of extract_urls_from_sitemap
    web,            \* what each sitemap location serves, fixed at its first fetch
    rpc,            \* position of extract_urls_from_sitemap: "start", "parsing", "done"
    stack,          \* the active parse_sitemap calls, outermost first
    result,         \* the returned list
    fetched,        \* the fetch_sitemap_content calls made: <<url, depth of the document>>
    raised          \* the parse_sitemap calls ended by the generic handler: <<url, depth>>

resolveVars == <<recursive, max_depth, web, rpc, stack, result, fetched, raised>>

VARIABLES
    max_workers,    \* self.max_workers
    batch_size,     \* self.batch_size, 0 standing for None ("if self.batch_size" treats both alike)
    sampling_rate,  \* self.sampling_rate in hundredths
    urls,           \* argument of batch_url_status_check
    bpc,            \* position of batch_url_status_check
    sampled_urls,
    batched_urls,
    batch_no,       \* index in batched_urls of the batch of the for loop
    total_urls,
    processed_urls,
    all_results,
    workers,        \* number of threads of the executor of the current batch
    queue,          \* work items submitted and not yet taken by a thread
    running,        \* the _check_url_status calls in progress
    finished,       \* futures finished before as_completed was called
    finished_futures, \* futures finished since, in the order they finished
    progress,       \* the values handed to st.progress, as <<processed, total>>
    calls,          \* how many times _check_url_status was called for each URL
    got,            \* what requests.get did in the probe of each URL
    handshakes,     \* the URLs whose probe reached the socket handshake
    completed       \* the futures in the order they finished: the URL, and whether
                    \* as_completed had not been called yet

batchVars == <<max_workers, batch_size, sampling_rate, urls, bpc, sampled_urls,
               batched_urls, batch_no, total_urls, processed_urls, all_results,
               workers, queue, running, finished, finished_futures, progress,
               calls, got, handshakes, completed>>

vars == <<resolveVars, batchVars>>

(***************************************************************************)
(* parse_sitemap, the part before the loop.                                *)
(***************************************************************************)
\* root.findall('.//ns:loc') and the comprehension that keeps the non-empty texts
extracted_urls(doc) ==
    LET kept == SelectSeq(doc.locs, LAMBDA e : e.text # None)
    IN  [i \in 1..Len(kept) |-> kept[i].text]

\* FollowGuard that still follows at max_depth
FollowGuardInclusive(depth) == recursive /\ depth <= max_depth

\* root.findall('.//ns:sitemap/ns:loc'), consulted only under the depth guard
FollowGuard(depth) == recursive /\ depth < max_depth

sitemap_indexes(doc, depth) ==
    IF FollowGuard(depth)
    THEN LET kept == SelectSeq(doc.locs, LAMBDA e : e.tag = "sitemap")
         IN  [i \in 1..Len(kept) |-> kept[i].text]
    ELSE <<>>

NewFrame(url, doc, depth) ==
    [url |-> url, depth |-> depth,
     extracted_urls |-> extracted_urls(doc),
     todo |-> sitemap_indexes(doc, depth)]

\* Deduplicated returning the list as collected
AsCollected(s) == {s}

\* list(set(...)): the order of the returned list is not specified
Deduplicated(s) == Orderings(Range(s))

(***************************************************************************)
(* fetch_sitemap_content: the first fetch of a location decides what it    *)
(* serves; later fetches of the same location see the same document.       *)
(***************************************************************************)
LocsServed == Len(web["r"].locs) + Len(web["a"].locs) + Len(web["b"].locs)

Served(url) == IF web[url] = Unfetched THEN Documents(MaxLocs - LocsServed) ELSE {web[url]}

Fetch(url, doc) == web' = [web EXCEPT ![url] = doc]

HasContent(doc) == doc.fetch = "ok"

ResolveStart ==
    /\ recursive \in BOOLEAN
    /\ max_depth \in 0..MaxDepthArg
    /\ web = [l \in SitemapLocs |-> Unfetched]
    /\ rpc = "start"
    /\ stack = <<>>
    /\ result = <<>>
    /\ fetched = {}
    /\ raised = {}

\* lines 68-71 with a root that gives no content: return []
StartNoContent ==
    /\ rpc = "start"
    /\ \E doc \in Served(RootUrl) :
        /\ Fetch(RootUrl, doc)
        /\ ~HasContent(doc)
    /\ fetched' = fetched \cup {<<RootUrl, 0>>}
    /\ rpc' = "done"
    /\ result' = <<>>
    /\ UNCHANGED <<batchVars, recursive, max_depth, stack, raised>>

\* lines 68-70, parse_sitemap(initial_content) raising ParseError: list(set([]))
StartMalformed ==
    /\ rpc = "start"
    /\ \E doc \in Served(RootUrl) :
        /\ Fetch(RootUrl, doc)
        /\ HasContent(doc) /\ doc.xml = "malformed"
    /\ fetched' = fetched \cup {<<RootUrl, 0>>}
    /\ rpc' = "done"
    /\ result' = <<>>
    /\ UNCHANGED <<batchVars, recursive, max_depth, stack, raised>>

\* lines 68-70 and 42-51: the root parses, its parse_sitemap call becomes active
StartParse ==
    /\ rpc = "start"
    /\ \E doc \in Served(RootUrl) :
        /\ Fetch(RootUrl, doc)
        /\ HasContent(doc) /\ doc.xml = "ok"
        /\ stack' = <<NewFrame(RootUrl, doc, 0)>>
    /\ fetched' = fetched \cup {<<RootUrl, 0>>}
    /\ rpc' = "parsing"
    /\ UNCHANGED <<batchVars, recursive, max_depth, result, raised>>

Top == stack[Len(stack)]

\* the innermost call ends with value `value`: its caller extends its list (line 57),
\* or, for the outermost call, line 70 removes the duplicates and returns
Return(value) ==
    IF Len(stack) = 1
    THEN /\ rpc' = "done"
         /\ stack' = <<>>
         /\ result' \in Deduplicated(value)
    ELSE /\ rpc' = "parsing"
         /\ stack' = [SubSeq(stack, 1, Len(stack) - 1) EXCEPT ![Len(stack) - 1].extracted_urls = @ \o value]
         /\ result' = result

\* Advance as it would be if a child that gives nothing ended the loop
AdvanceEndsLoop == [stack EXCEPT ![Len(stack)].todo = <<>>]

\* the loop step of lines 52-53 consumed one sitemap <loc>
Advance == [stack EXCEPT ![Len(stack)].todo = Tail(@)]

\* ChildNoContent that asks for the same nested sitemap again instead of going on
ChildNoContentAsksAgain ==
    /\ rpc = "parsing" /\ Top.todo # <<>> /\ Head(Top.todo) # None
    /\ \E doc \in Served(Head(Top.todo)) :
        /\ Fetch(Head(Top.todo), doc)
        /\ ~HasContent(doc)
    /\ fetched' = fetched \cup {<<Head(Top.todo), Top.depth + 1>>}
    /\ UNCHANGED <<batchVars, recursive, max_depth, rpc, stack, result, raised>>

\* lines 53-55: the nested sitemap gives no content, the loop goes on
ChildNoContent ==
    /\ rpc = "parsing" /\ Top.todo # <<>> /\ Head(Top.todo) # None
    /\ \E doc \in Served(Head(Top.todo)) :
        /\ Fetch(Head(Top.todo), doc)
        /\ ~HasContent(doc)
    /\ fetched' = fetched \cup {<<Head(Top.todo), Top.depth + 1>>}
    /\ stack' = Advance
    /\ UNCHANGED <<batchVars, recursive, max_depth, rpc, result, raised>>

\* lines 53-57 and 60-62: the nested call raises ParseError and returns [],
\* the loop goes on
ChildMalformed ==
    /\ rpc = "parsing" /\ Top.todo # <<>> /\ Head(Top.todo) # None
    /\ \E doc \in Served(Head(Top.todo)) :
        /\ Fetch(Head(Top.todo), doc)
        /\ HasContent(doc) /\ doc.xml = "malformed"
    /\ fetched' = fetched \cup {<<Head(Top.todo), Top.depth + 1>>}
    /\ stack' = Advance
    /\ UNCHANGED <<batchVars, recursive, max_depth, rpc, result, raised>>

\* lines 53-56 and 42-51: the nested sitemap parses, its call becomes active
ChildParse ==
    /\ rpc = "parsing" /\ Top.todo # <<>> /\ Head(Top.todo) # None
    /\ \E doc \in Served(Head(Top.todo)) :
        /\ Fetch(Head(Top.todo), doc)
        /\ HasContent(doc) /\ doc.xml = "ok"
        /\ stack' = Advance \o <<NewFrame(Head(Top.todo), doc, Top.depth + 1)>>
    /\ fetched' = fetched \cup {<<Head(Top.todo), Top.depth + 1>>}
    /\ UNCHANGED <<batchVars, recursive, max_depth, rpc, result, raised>>

\* line 53 on a <sitemap><loc> without text: None.strip() raises AttributeError,
\* lines 63-65 end this call with []
ChildLocWithoutText ==
    /\ rpc = "parsing" /\ Top.todo # <<>> /\ Head(Top.todo) = None
    /\ raised' = raised \cup {<<Top.url, Top.depth>>}
    /\ Return(<<>>)
    /\ UNCHANGED <<batchVars, recursive, max_depth, web, fetched>>

\* line 59: the loop is over (or was not entered), the call returns its list
ParseReturn ==
    /\ rpc = "parsing" /\ Top.todo = <<>>
    /\ Return(Top.extracted_urls)
    /\ UNCHANGED <<batchVars, recursive, max_depth, web, fetched, raised>>

ResolveNext ==
    \/ StartNoContent
    \/ StartMalformed
    \/ StartParse
    \/ ChildNoContent
    \/ ChildMalformed
    \/ ChildParse
    \/ ChildLocWithoutText
    \/ ParseReturn

\* the resolver is not running (the checker is used on a literal URL list)
ResolveIdle ==
    /\ recursive = TRUE
    /\ max_depth = 0
    /\ web = [l \in SitemapLocs |-> Unfetched]
    /\ rpc = "idle"
    /\ stack = <<>>
    /\ result = <<>>
    /\ fetched = {}
    /\ raised = {}

(***************************************************************************)
(* URLStatusChecker._check_url_status: the probe of one URL.               *)
(***************************************************************************)
\* what requests.get can do: return a response or raise one of these classes
Exceptions == {"SSLError", "ConnectionError", "ConnectTimeout", "ReadTimeout",
               "Timeout", "TooManyRedirects"}

\* the classes requests raises when the deadline of the request is exceeded
\* (ConnectTimeout and ReadTimeout are subclasses of Timeout)
TimeoutClasses == {"ConnectTimeout", "ReadTimeout", "Timeout"}

Codes == {199, 200, 399, 400, 404, 500}
Headers == {"Content-Type", "Server"}

Responses ==
    [kind : {"response"}, status_code : Codes, history : {<<>>, <<"hop">>},
     url : {"final"}, headers : SUBSET Headers, elapsed : {1499}]

Raises == [kind : {"raises"}, class : Exceptions]

HttpOutcomes == Responses \cup Raises

\* the outcomes the scheduler is explored with
BatchOutcomes ==
    {o \in Responses : o.status_code = 200 /\ o.history = <<>> /\ o.headers = {}}
      \cup {o \in Raises : o.class = "ReadTimeout"}

NotProbed == [kind |-> "none"]

\* lines 109-119
InitialResult(url) ==
    [original_url |-> url, status |-> "Unchecked", http_code |-> None,
     redirect_chain |-> <<>>, ssl_valid |-> FALSE, response_time |-> None,
     content_type |-> None, server |-> None, error |-> None]

\* Classify with the upper limit included
ClassifyUpTo400(code) == IF 200 <= code /\ code <= 400 THEN "Healthy" ELSE "Unhealthy"

\* line 140
Classify(code) == IF 200 <= code /\ code < 400 THEN "Healthy" ELSE "Unhealthy"

\* round(response_time, 3), the time taken in microseconds, the value in milliseconds
Round3(us) == (us + 500) \div 1000

\* response.headers.get(name, 'Unknown')
HeaderOr(response, name) == IF name \in response.headers THEN <<"value of", name>> ELSE "Unknown"

\* lines 137-145
OnResponse(res, response) ==
    [res EXCEPT !.http_code = response.status_code,
                !.status = Classify(response.status_code),
                !.redirect_chain = response.history \o <<response.url>>,
                !.response_time = Round3(response.elapsed),
                !.content_type = HeaderOr(response, "Content-Type"),
                !.server = HeaderOr(response, "Server")]

\* OnHandshake letting a failed handshake replace the status of the HTTP stage
OnHandshakeOverriding(res, ok) ==
    IF ok
    THEN [res EXCEPT !.ssl_valid = TRUE]
    ELSE [res EXCEPT !.ssl_valid = FALSE, !.status = "SSL Error",
                     !.error = "SSL Certificate Verification Failed"]

\* lines 148-158
OnHandshake(res, ok) == [res EXCEPT !.ssl_valid = ok]

\* error_mapping without its ConnectionError entry
error_mapping_no_connection(class) ==
    CASE class = "SSLError" -> <<"SSL Error", "SSL Certificate Verification Failed">>
      [] class = "Timeout" -> <<"Timeout", "Request timed out">>
      [] OTHER -> <<"Error", <<"str", class>>>>

\* lines 161-165 and the lookups of lines 169-170: error_mapping.get(type(e), default)
\* looks the exact class of the exception up
error_mapping(class) ==
    CASE class = "SSLError" -> <<"SSL Error", "SSL Certificate Verification Failed">>
      [] class = "ConnectionError" -> <<"Connection Error", "Unable to connect to the server">>
      [] class = "Timeout" -> <<"Timeout", "Request timed out">>
      [] OTHER -> <<"Error", <<"str", class>>>>

\* OnException filling in the error text only
OnExceptionErrorOnly(res, class) == [res EXCEPT !.error = <<"str", class>>]

\* lines 167-171
OnException(res, class) ==
    [res EXCEPT !.status = error_mapping(class)[1],
                !.error = error_mapping(class)[2]]

(***************************************************************************)
(* URLStatusChecker._sample_urls and the batching of lines 186-189.        *)
(***************************************************************************)
Max(a, b) == IF a >= b THEN a ELSE b
Min(a, b) == IF a <= b THEN a ELSE b

SamplingRates == {50, 100}

\* line 99
sample_count(us) == Max(1, (Len(us) * sampling_rate) \div 100)

\* RandomSamples drawing with replacement, as random.choices does
RandomChoices(us, k) == {[i \in 1..k |-> us[f[i]]] : f \in [1..k -> 1..Len(us)]}

\* random.sample(urls, k): any k distinct positions, in any order
RandomSamples(us, k) ==
    {[i \in 1..k |-> us[f[i]]] : f \in {g \in [1..k -> 1..Len(us)] : \A i, j \in 1..k : g[i] = g[j] => i = j}}

\* Batches without the chunk that is left over when batch_size does not divide
BatchesFullOnly(us) ==
    IF batch_size # 0
    THEN [j \in 1..(Len(us) \div batch_size) |->
             SubSeq(us, (j - 1) * batch_size + 1, j * batch_size)]
    ELSE <<us>>

\* lines 186-189
Batches(us) ==
    IF batch_size # 0
    THEN [j \in 1..((Len(us) + batch_size - 1) \div batch_size) |->
             SubSeq(us, (j - 1) * batch_size + 1, Min(j * batch_size, Len(us)))]
    ELSE <<us>>

BatchStart ==
    /\ max_workers \in 1..MaxWorkers
    /\ batch_size \in 0..MaxUrls
    /\ sampling_rate \in SamplingRates
    /\ urls \in {[i \in 1..n |-> i] : n \in 0..MaxUrls}
    /\ bpc = "start"
    /\ sampled_urls = <<>>
    /\ batched_urls = <<>>
    /\ batch_no = 0
    /\ total_urls = 0
    /\ processed_urls = 0
    /\ all_results = <<>>
    /\ workers = 0
    /\ queue = <<>>
    /\ running = {}
    /\ finished = {}
    /\ finished_futures = <<>>
    /\ progress = <<>>
    /\ calls = [u \in 1..MaxUrls |-> 0]
    /\ got = [u \in 1..MaxUrls |-> NotProbed]
    /\ handshakes = {}
    /\ completed = <<>>

\* the settings of the sidebar sliders (lines 228-241) on a list of any length
\* within the bound
SliderRates == {10, 30, 50, 70, 90, 100}

PrepareStart ==
    /\ max_workers = 1
    /\ batch_size \in 0..MaxSampleUrls
    /\ sampling_rate \in SliderRates
    /\ urls \in {[i \in 1..n |-> i] : n \in 0..MaxSampleUrls}
    /\ bpc = "start"
    /\ sampled_urls = <<>>
    /\ batched_urls = <<>>
    /\ batch_no = 0
    /\ total_urls = 0
    /\ processed_urls = 0
    /\ all_results = <<>>
    /\ workers = 0
    /\ queue = <<>>
    /\ running = {}
    /\ finished = {}
    /\ finished_futures = <<>>
    /\ progress = <<>>
    /\ calls = [u \in 1..MaxUrls |-> 0]
    /\ got = [u \in 1..MaxUrls |-> NotProbed]
    /\ handshakes = {}
    /\ completed = <<>>

\* lines 183-193
Prepare(sample) ==
    /\ sampled_urls' = sample
    /\ batched_urls' = Batches(sample)
    /\ all_results' = <<>>
    /\ total_urls' = Len(sample)
    /\ processed_urls' = 0
    /\ batch_no' = 1
    /\ bpc' = "loop"

\* lines 96-97 and 186-193
SampleAll ==
    /\ bpc = "start" /\ sampling_rate >= 100
    /\ Prepare(urls)
    /\ UNCHANGED <<resolveVars, completed, max_workers, batch_size, sampling_rate, urls, workers, queue, running,
                   finished, finished_futures, progress, calls, got, handshakes>>

\* lines 99-100 and 186-193
SampleSome ==
    /\ bpc = "start" /\ sampling_rate < 100
    /\ sample_count(urls) <= Len(urls)
    /\ \E sample \in RandomSamples(urls, sample_count(urls)) : Prepare(sample)
    /\ UNCHANGED <<resolveVars, completed, max_workers, batch_size, sampling_rate, urls, workers, queue, running,
                   finished, finished_futures, progress, calls, got, handshakes>>

\* line 100: random.sample raises ValueError when asked for more than there is
SampleRaises ==
    /\ bpc = "start" /\ sampling_rate < 100
    /\ sample_count(urls) > Len(urls)
    /\ bpc' = "raised"
    /\ UNCHANGED <<resolveVars, completed, max_workers, batch_size, sampling_rate, urls, sampled_urls, batched_urls,
                   batch_no, total_urls, processed_urls, all_results, workers, queue,
                   running, finished, finished_futures, progress, calls, got, handshakes>>

(***************************************************************************)
(* The loop of lines 195-205 and the executor it drives.                   *)
(***************************************************************************)
\* PoolThreads of an executor that starts a thread for every work item
PoolThreadsUnbounded(batch) == Len(batch)

\* ThreadPoolExecutor(max_workers=...): submit starts a thread while there are
\* fewer than max_workers of them
PoolThreads(batch) == Min(max_workers, Len(batch))

\* Drained of a loop that ends as soon as no finished future is waiting
DrainedNoneWaiting == finished = {} /\ finished_futures = <<>>

\* as_completed ends, and with it the with block, once every future it was
\* given has been yielded
Drained == queue = <<>> /\ running = {} /\ finished = {} /\ finished_futures = <<>>

\* lines 195-198: the executor of the batch is created and every URL of the
\* batch is submitted
OpenBatch ==
    /\ bpc = "loop" /\ batch_no <= Len(batched_urls)
    /\ workers' = PoolThreads(batched_urls[batch_no])
    /\ queue' = batched_urls[batch_no]
    /\ bpc' = "submitted"
    /\ UNCHANGED <<resolveVars, completed, max_workers, batch_size, sampling_rate, urls, sampled_urls, batched_urls,
                   batch_no, total_urls, processed_urls, all_results, running, finished,
                   finished_futures, progress, calls, got, handshakes>>

\* a thread of the executor takes the next work item and enters _check_url_status
\* (lines 109-135)
WorkerTake ==
    /\ bpc \in {"submitted", "collecting"}
    /\ queue # <<>>
    /\ Cardinality(running) < workers
    /\ running' = running \cup {[stage |-> "http", res |-> InitialResult(Head(queue))]}
    /\ queue' = Tail(queue)
    /\ calls' = [calls EXCEPT ![Head(queue)] = @ + 1]
    /\ UNCHANGED <<resolveVars, completed, max_workers, batch_size, sampling_rate, urls, bpc, sampled_urls,
                   batched_urls, batch_no, total_urls, processed_urls, all_results,
                   workers, finished, finished_futures, progress, got, handshakes>>

\* _check_url_status returns res: the future is finished
FutureDone(p, res) ==
    /\ running' = running \ {p}
    /\ completed' = Append(completed, [url |-> res.original_url, early |-> bpc = "submitted"])
    /\ IF bpc = "submitted"
       THEN finished' = finished \cup {res} /\ finished_futures' = finished_futures
       ELSE finished' = finished /\ finished_futures' = Append(finished_futures, res)

\* lines 129-145: requests.get returns a response
HttpResponds(outcomes) ==
    /\ \E p \in running, o \in outcomes :
        /\ p.stage = "http" /\ o.kind = "response"
        /\ running' = (running \ {p}) \cup {[stage |-> "tls", res |-> OnResponse(p.res, o)]}
        /\ got' = [got EXCEPT ![p.res.original_url] = o]
    /\ UNCHANGED <<resolveVars, completed, max_workers, batch_size, sampling_rate, urls, bpc, sampled_urls,
                   batched_urls, batch_no, total_urls, processed_urls, all_results,
                   workers, queue, finished, finished_futures, progress, calls, handshakes>>

\* HttpRaises of a probe whose handshake is outside the try block: the handler
\* fills the result in and the probe goes on to the handshake
HttpRaisesThenHandshake(outcomes) ==
    /\ \E p \in running, o \in outcomes :
        /\ p.stage = "http" /\ o.kind = "raises"
        /\ running' = (running \ {p}) \cup {[stage |-> "tls", res |-> OnException(p.res, o.class)]}
        /\ got' = [got EXCEPT ![p.res.original_url] = o]
    /\ UNCHANGED <<resolveVars, completed, max_workers, batch_size, sampling_rate, urls, bpc, sampled_urls,
                   batched_urls, batch_no, total_urls, processed_urls, all_results,
                   workers, queue, finished, finished_futures, progress, calls, handshakes>>

\* lines 129-135 and 160-173: requests.get raises, the handler fills the result in
\* and the probe returns
HttpRaises(outcomes) ==
    /\ \E p \in running, o \in outcomes :
        /\ p.stage = "http" /\ o.kind = "raises"
        /\ FutureDone(p, OnException(p.res, o.class))
        /\ got' = [got EXCEPT ![p.res.original_url] = o]
    /\ UNCHANGED <<resolveVars, max_workers, batch_size, sampling_rate, urls, bpc, sampled_urls,
                   batched_urls, batch_no, total_urls, processed_urls, all_results,
                   workers, queue, progress, calls, handshakes>>

\* lines 147-158 and 173: the handshake on port 443 succeeds or fails, the probe returns
TlsStage ==
    /\ \E p \in running, ok \in BOOLEAN :
        /\ p.stage = "tls"
        /\ FutureDone(p, OnHandshake(p.res, ok))
        /\ handshakes' = handshakes \cup {p.res.original_url}
    /\ UNCHANGED <<resolveVars, max_workers, batch_size, sampling_rate, urls, bpc, sampled_urls,
                   batched_urls, batch_no, total_urls, processed_urls, all_results,
                   workers, queue, progress, calls, got>>

\* line 200: as_completed is called; the futures already finished will be
\* yielded first, in the order of a set
CallAsCompleted ==
    /\ bpc = "submitted"
    /\ bpc' = "collecting"
    /\ UNCHANGED <<resolveVars, completed, max_workers, batch_size, sampling_rate, urls, sampled_urls, batched_urls,
                   batch_no, total_urls, processed_urls, all_results, workers, queue,
                   running, finished, finished_futures, progress, calls, got, handshakes>>

\* Collect reporting the progress before counting the result
CollectStaleProgress(res) ==
    /\ all_results' = Append(all_results, res)
    /\ processed_urls' = processed_urls + 1
    /\ progress' = Append(progress, <<processed_urls, total_urls>>)

\* lines 201-205 for the future as_completed yields
Collect(res) ==
    /\ all_results' = Append(all_results, res)
    /\ processed_urls' = processed_urls + 1
    /\ progress' = Append(progress, <<processed_urls + 1, total_urls>>)

\* lines 200-205: as_completed yields a future that had finished before the call
CollectFinished ==
    /\ bpc = "collecting" /\ finished # {}
    /\ \E res \in finished :
        /\ Collect(res)
        /\ finished' = finished \ {res}
    /\ UNCHANGED <<resolveVars, completed, max_workers, batch_size, sampling_rate, urls, bpc, sampled_urls,
                   batched_urls, batch_no, total_urls, workers, queue, running,
                   finished_futures, calls, got, handshakes>>

\* CollectNext yielding the future that finished last instead of the one that
\* finished first
CollectNextNewest ==
    /\ bpc = "collecting" /\ finished = {} /\ finished_futures # <<>>
    /\ Collect(finished_futures[Len(finished_futures)])
    /\ finished_futures' = SubSeq(finished_futures, 1, Len(finished_futures) - 1)
    /\ UNCHANGED <<resolveVars, completed, max_workers, batch_size, sampling_rate, urls, bpc, sampled_urls,
                   batched_urls, batch_no, total_urls, workers, queue, running,
                   finished, calls, got, handshakes>>

\* lines 200-205: as_completed yields the future that finished next
CollectNext ==
    /\ bpc = "collecting" /\ finished = {} /\ finished_futures # <<>>
    /\ Collect(Head(finished_futures))
    /\ finished_futures' = Tail(finished_futures)
    /\ UNCHANGED <<resolveVars, completed, max_workers, batch_size, sampling_rate, urls, bpc, sampled_urls,
                   batched_urls, batch_no, total_urls, workers, queue, running,
                   finished, calls, got, handshakes>>

\* lines 195-200: as_completed is exhausted, the with block shuts the executor
\* down and the for loop moves on
CloseBatch ==
    /\ bpc = "collecting" /\ Drained
    /\ batch_no' = batch_no + 1
    /\ workers' = 0
    /\ bpc' = "loop"
    /\ UNCHANGED <<resolveVars, completed, max_workers, batch_size, sampling_rate, urls, sampled_urls, batched_urls,
                   total_urls, processed_urls, all_results, queue, running, finished,
                   finished_futures, progress, calls, got, handshakes>>

\* line 207
ReturnResults ==
    /\ bpc = "loop" /\ batch_no > Len(batched_urls)
    /\ bpc' = "done"
    /\ UNCHANGED <<resolveVars, completed, max_workers, batch_size, sampling_rate, urls, sampled_urls, batched_urls,
                   batch_no, total_urls, processed_urls, all_results, workers, queue,
                   running, finished, finished_futures, progress, calls, got, handshakes>>

\* the checker is not running (the resolver is used alone)
BatchIdle ==
    /\ max_workers = 1 /\ batch_size = 0 /\ sampling_rate = 100 /\ urls = <<>>
    /\ bpc = "idle"
    /\ sampled_urls = <<>> /\ batched_urls = <<>> /\ batch_no = 0
    /\ total_urls = 0 /\ processed_urls = 0 /\ all_results = <<>>
    /\ workers = 0 /\ queue = <<>> /\ running = {} /\ finished = {}
    /\ finished_futures = <<>> /\ progress = <<>>
    /\ calls = [u \in 1..MaxUrls |-> 0]
    /\ got = [u \in 1..MaxUrls |-> NotProbed]
    /\ handshakes = {}
    /\ completed = <<>>

(***************************************************************************)
(* Specifications.                                                         *)
(***************************************************************************)
\* extract_urls_from_sitemap on every web within the bounds
ResolveInit == ResolveStart /\ BatchIdle
SpecResolve == ResolveInit /\ [][ResolveNext]_vars

\* batch_url_status_check on every configuration and URL list within the bounds
BatchInit == BatchStart /\ ResolveIdle
BatchNext ==
    \/ SampleAll
    \/ SampleSome
    \/ SampleRaises
    \/ OpenBatch
    \/ WorkerTake
    \/ HttpResponds(BatchOutcomes)
    \/ HttpRaises(BatchOutcomes)
    \/ TlsStage
    \/ CallAsCompleted
    \/ CollectFinished
    \/ CollectNext
    \/ CloseBatch
    \/ ReturnResults
SpecBatch == BatchInit /\ [][BatchNext]_vars

\* the probe of one URL, on every outcome of its two network stages
ProbeInit == BatchStart /\ ResolveIdle /\ urls = <<1>> /\ max_workers = 1
                /\ batch_size = 0 /\ sampling_rate = 100
ProbeNext ==
    \/ SampleAll
    \/ OpenBatch
    \/ WorkerTake
    \/ HttpResponds(HttpOutcomes)
    \/ HttpRaises(HttpOutcomes)
    \/ TlsStage
    \/ CallAsCompleted
    \/ CollectFinished
    \/ CollectNext
    \/ CloseBatch
    \/ ReturnResults
SpecProbe == ProbeInit /\ [][ProbeNext]_vars

\* _sample_urls and the batching of lines 183-193 alone, on longer lists and
\* every slider rate
PrepareInit == PrepareStart /\ ResolveIdle
PrepareNext ==
    \/ SampleAll
    \/ SampleSome
    \/ SampleRaises
SpecPrepare == PrepareInit /\ [][PrepareNext]_vars

\* extract_urls_from_sitemap runs on one thread that is never held back: a step
\* that can be taken is taken
SpecResolveFair == SpecResolve /\ WF_vars(ResolveNext)

(***************************************************************************)
(* Properties of extract_urls_from_sitemap (checked under SpecResolve).    *)
(***************************************************************************)
Parsed(doc) == doc.fetch = "ok" /\ doc.xml = "ok"
GivesNothing(doc) == doc.fetch = "fails" \/ (doc.fetch = "ok" /\ doc.xml = "malformed")

UrlTexts(doc) == {doc.locs[i].text : i \in {k \in 1..Len(doc.locs) : doc.locs[k].tag = "url"}}
SitemapTexts(doc) == {doc.locs[i].text : i \in {k \in 1..Len(doc.locs) : doc.locs[k].tag = "sitemap"}}

RECURSIVE TreeFits(_, _)
\* the sitemap tree under url, a document of depth d: every document of it
\* fetches and parses, every <sitemap><loc> names a document, and no index lies
\* at depth max_depth or deeper
TreeFits(url, d) ==
    /\ Parsed(web[url])
    /\ \A child \in SitemapTexts(web[url]) :
        /\ d < max_depth
        /\ child # None
        /\ TreeFits(child, d + 1)

RECURSIVE UrlSetLocations(_, _)
\* the <url><loc> texts of the documents of a tree that fits
UrlSetLocations(url, d) ==
    UrlTexts(web[url]) \cup UNION {UrlSetLocations(child, d + 1) : child \in SitemapTexts(web[url])}

\* C1: when extract_urls_from_sitemap has returned with recursion enabled on a
\* tree whose index nesting is within max_depth and whose documents all fetch
\* and parse, the returned list holds exactly the URL locations of the tree's
\* URL sets and nothing else.
C1_ExactlyUrlSetLocations ==
    (rpc = "done" /\ recursive /\ TreeFits(RootUrl, 0))
        => Range(result) = UrlSetLocations(RootUrl, 0)

\* a document whose <loc> elements are all sitemap entries
IsIndex(doc) == Parsed(doc) /\ doc.locs # <<>> /\ UrlTexts(doc) = {}

\* C6: with max_depth = 0 and a root document that is a sitemap index,
\* extract_urls_from_sitemap returns an empty list.
C6_IndexAtDepthZeroGivesNothing ==
    (rpc = "done" /\ max_depth = 0 /\ IsIndex(web[RootUrl])) => result = <<>>

\* the parse_sitemap calls of the run whose loop over the nested sitemaps ran
\* to its end: <<url, depth>> with the sitemap texts the loop went through
CompletedLoops ==
    {f \in fetched : Parsed(web[f[1]]) /\ f \notin raised}

Returned == finished \cup Range(finished_futures) \cup Range(all_results)

HttpOutcomeOf(res) == got[res.original_url]

\* C3 as claimed: every probe that returned attempted the handshake on port 443,
\* also when requests.get raised.
C3_HandshakeAlwaysAttempted ==
    \A res \in Returned : res.original_url \in handshakes

\* C3 as amended: a probe that returned attempted the handshake exactly when
\* requests.get returned a response; when requests.get raised, the handshake
\* was not attempted and ssl_valid is still False.
C3_HandshakeOnlyAfterResponse ==
    \A res \in Returned :
        /\ res.original_url \in handshakes <=> HttpOutcomeOf(res).kind = "response"
        /\ HttpOutcomeOf(res).kind = "raises" => res.ssl_valid = FALSE

\* C3 witness: a probe returned after requests.get raised, without a handshake
C3_Witness ==
    \E res \in Returned :
        /\ HttpOutcomeOf(res).kind = "raises"
        /\ res.original_url \notin handshakes
        /\ res.status \in {"SSL Error", "Connection Error", "Timeout", "Error"}

\* C4: every probe that returned after requests.get raised a timeout exception
\* (connect or read timeout) has status 'Timeout'.
C4_TimeoutGivesTimeoutStatus ==
    \A res \in Returned :
        (HttpOutcomeOf(res).kind = "raises" /\ HttpOutcomeOf(res).class \in TimeoutClasses)
            => res.status = "Timeout"

\* C9: every probe that returned after requests.get raised ConnectionError (the
\* host refused, was unreachable or did not resolve) has status
\* 'Connection Error' and http_code, redirect_chain, content_type and server
\* as they were initialised.
C9_UnreachableGivesConnectionError ==
    \A res \in Returned :
        (HttpOutcomeOf(res).kind = "raises" /\ HttpOutcomeOf(res).class = "ConnectionError")
            => /\ res.status = "Connection Error"
               /\ res.http_code = None
               /\ res.redirect_chain = <<>>
               /\ res.content_type = None
               /\ res.server = None

\* C9 witness: a probe returned after requests.get raised ConnectionError
C9_Witness ==
    \E res \in Returned :
        /\ HttpOutcomeOf(res).kind = "raises"
        /\ HttpOutcomeOf(res).class = "ConnectionError"
        /\ res.status = "Connection Error"

\* C10: every probe that returned after requests.get gave a response with
\* status code c has http_code = c, and status 'Healthy' when c is one of
\* 200..399 and 'Unhealthy' otherwise.
C10_StatusFollowsCode ==
    \A res \in Returned :
        HttpOutcomeOf(res).kind = "response"
            => /\ res.http_code = HttpOutcomeOf(res).status_code
               /\ res.status = "Healthy" <=> HttpOutcomeOf(res).status_code \in 200..399
               /\ res.status = "Unhealthy" <=> HttpOutcomeOf(res).status_code \notin 200..399

\* C10 witness: a probe returned Unhealthy with http_code 404
C10_Witness ==
    \E res \in Returned :
        /\ HttpOutcomeOf(res).kind = "response"
        /\ res.http_code = 404
        /\ res.status = "Unhealthy"

(***************************************************************************)
(* Properties of batch_url_status_check (checked under SpecBatch).         *)
(***************************************************************************)
\* C2: at every moment the number of _check_url_status calls that have started
\* and not yet returned is at most max_workers.
C2_AtMostMaxWorkersInFlight == Cardinality(running) <= max_workers

\* C2 witness: max_workers probes are in flight and another URL of the batch waits
C2_Witness == Cardinality(running) = max_workers /\ queue # <<>>

HasResult(u) == \E k \in 1..Len(all_results) : all_results[k].original_url = u

\* C7: a probe of a later batch has started only if every URL of every earlier
\* batch has its result in all_results.
C7_BatchesStrictlySequential ==
    \A i, j \in 1..Len(batched_urls) :
        i < j => \A u \in Range(batched_urls[j]) :
                    calls[u] > 0 => \A v \in Range(batched_urls[i]) : HasResult(v)

\* C7 witness: a probe of the second batch is in flight
C7_Witness ==
    /\ Len(batched_urls) >= 2 /\ batch_no = 2
    /\ \E p \in running : p.res.original_url \in Range(batched_urls[2])

TerminalStatuses == {"Healthy", "Unhealthy", "SSL Error", "Connection Error", "Timeout", "Error"}

\* C8: when batch_url_status_check has returned, _check_url_status was called
\* exactly once for every sampled URL and never for another one, all_results
\* holds exactly one result per sampled URL, and every status is a terminal one.
C8_OneTerminalResultPerUrl ==
    bpc = "done" =>
        /\ \A u \in 1..MaxUrls : calls[u] = (IF u \in Range(sampled_urls) THEN 1 ELSE 0)
        /\ Len(all_results) = Len(sampled_urls)
        /\ \A u \in Range(sampled_urls) :
            Cardinality({k \in 1..Len(all_results) : all_results[k].original_url = u}) = 1
        /\ \A k \in 1..Len(all_results) :
            /\ all_results[k].original_url \in Range(sampled_urls)
            /\ all_results[k].status \in TerminalStatuses

\* C8 witness: the run returned with several results, one of a failed check
C8_Witness ==
    /\ bpc = "done" /\ Len(all_results) >= 2
    /\ \E k \in 1..Len(all_results) : all_results[k].status = "Error"

(***************************************************************************)
(* Properties of _sample_urls and of the batching (checked under           *)
(* SpecPrepare).                                                           *)
(***************************************************************************)
Distinct(s) == \A i, j \in 1..Len(s) : s[i] = s[j] => i = j

RECURSIVE Concatenation(_)
Concatenation(ss) == IF ss = <<>> THEN <<>> ELSE Head(ss) \o Concatenation(Tail(ss))

\* C14: the batches, concatenated in order, are the sampled sequence; with a
\* batch_size b every batch but the last has b URLs and the last has between 1
\* and b; without a batch_size there is exactly one batch, holding everything.
C14_BatchesPartitionTheSample ==
    bpc = "loop" =>
        /\ Concatenation(batched_urls) = sampled_urls
        /\ batch_size # 0 =>
            \A j \in 1..Len(batched_urls) :
                /\ j < Len(batched_urls) => Len(batched_urls[j]) = batch_size
                /\ Len(batched_urls[j]) \in 1..batch_size
        /\ batch_size = 0 => batched_urls = <<sampled_urls>>

\* C14 witness: several batches, the last one shorter than batch_size
C14_Witness ==
    /\ bpc = "loop" /\ batch_size >= 2 /\ Len(batched_urls) >= 2
    /\ Len(batched_urls[Len(batched_urls)]) < batch_size

(***************************************************************************)
(* Order of the output of batch_url_status_check (checked under SpecBatch).*)
(***************************************************************************)
\* the result of url has been appended to all_results (line 202)
Collected(url) == \E k \in 1..Len(all_results) : all_results[k].original_url = url

\* where in all_results the result of a collected url stands
Position(url) == CHOOSE k \in 1..Len(all_results) : all_results[k].original_url = url

\* the batch a sampled url was put in
BatchOf(url) == CHOOSE b \in 1..Len(batched_urls) : url \in Range(batched_urls[b])

\* every result of an earlier batch stands before every result of a later one
BatchesInOrder ==
    \A k, l \in 1..Len(all_results) :
        BatchOf(all_results[k].original_url) < BatchOf(all_results[l].original_url) => k < l

\* C12 as stated: within a batch, the result of the probe that completed first
\* stands first in the output, whatever the order of submission; and the
\* results of batch i stand before those of batch i+1.
C12_OutputInCompletionOrder ==
    /\ \A i, j \in 1..Len(completed) :
        (/\ i < j
         /\ Collected(completed[i].url) /\ Collected(completed[j].url)
         /\ BatchOf(completed[i].url) = BatchOf(completed[j].url))
        => Position(completed[i].url) < Position(completed[j].url)
    /\ BatchesInOrder

\* C12 amended: within a batch, the result of A stands before the result of B
\* whenever A's probe completed before B's and B's completed after the loop
\* over as_completed had begun; the probes that had completed before that come
\* first, in no particular order; and the results of batch i stand before
\* those of batch i+1.
C12_OutputInCompletionOrderOnceCollecting ==
    /\ \A i, j \in 1..Len(completed) :
        (/\ i < j
         /\ ~completed[j].early
         /\ Collected(completed[i].url) /\ Collected(completed[j].url)
         /\ BatchOf(completed[i].url) = BatchOf(completed[j].url))
        => Position(completed[i].url) < Position(completed[j].url)
    /\ BatchesInOrder

\* C12 witness: two probes of one batch complete while the loop is waiting, the
\* one submitted later first, and both results are in the returned output
C12_Witness ==
    /\ bpc = "done"
    /\ \E i, j \in 1..Len(completed) :
        /\ i < j /\ ~completed[i].early /\ ~completed[j].early
        /\ completed[i].url > completed[j].url
        /\ BatchOf(completed[i].url) = BatchOf(completed[j].url)
        /\ Position(completed[i].url) < Position(completed[j].url)

(***************************************************************************)
(* Further properties of extract_urls_from_sitemap (checked under          *)
(* SpecResolve).                                                           *)
(***************************************************************************)
\* C13: the list extract_urls_from_sitemap returns holds no URL twice, whatever
\* the documents list, however deep the tree is and whichever of its documents
\* fail.
C13_ResultHasNoDuplicates == Distinct(result)

\* C13 witness: the root and a child it lists both parse and both list a URL
\* that is in the returned list
C13_Witness ==
    /\ rpc = "done" /\ raised = {}
    /\ Parsed(web[RootUrl])
    /\ \E child \in SitemapLocs \ {RootUrl} :
        /\ <<child, 1>> \in fetched /\ Parsed(web[child])
        /\ \E u \in Range(extracted_urls(web[RootUrl])) \cap Range(extracted_urls(web[child])) :
            u \in Range(result)

(***************************************************************************)
(* Progress reports of batch_url_status_check (checked under SpecBatch).   *)
(***************************************************************************)
\* C15: one value processed/total is reported for each result collected; every
\* reported value lies in [0,1], each is greater than the one before, and
\* when the run has returned with a non-empty sample every probe has been
\* reported and the last value is 1.
C15_ProgressIncreasesToOne ==
    /\ Len(progress) = Len(all_results)
    /\ \A i \in 1..Len(progress) :
        /\ progress[i][2] > 0
        /\ 0 <= progress[i][1] /\ progress[i][1] <= progress[i][2]
        /\ i > 1 => progress[i - 1][1] * progress[i][2] < progress[i][1] * progress[i - 1][2]
    /\ (bpc = "done" /\ sampled_urls # <<>>) =>
        /\ Len(progress) = Len(sampled_urls)
        /\ Len(progress) = Len(completed)
        /\ progress[Len(progress)][1] = progress[Len(progress)][2]

\* C15 witness: a run over several batches has returned after three reports
C15_Witness ==
    /\ bpc = "done" /\ Len(batched_urls) >= 2 /\ Len(progress) >= 3
    /\ progress[Len(progress)] = <<total_urls, total_urls>>

C17_FetchesRespectDepth ==
    \A f \in fetched :
        /\ f[2] <= max_depth
        /\ f[2] > 0 => recursive /\ f[2] - 1 < max_depth
        /\ ~recursive => f = <<RootUrl, 0>>

\* C17 witness: an index at depth max_depth >= 1 was fetched and parsed, and the
\* sitemaps it lists were not fetched at the depth below
C17_Witness ==
    /\ rpc = "done" /\ recursive /\ max_depth >= 1
    /\ \E f \in fetched :
        /\ f[2] = max_depth /\ Parsed(web[f[1]])
        /\ SitemapTexts(web[f[1]]) \ {None} # {}
        /\ \A c \in SitemapTexts(web[f[1]]) : <<c, max_depth + 1>> \notin fetched

(***************************************************************************)
(* Termination of extract_urls_from_sitemap (checked under                 *)
(* SpecResolveFair).                                                       *)
(***************************************************************************)
\* C18: extract_urls_from_sitemap returns, for every web of sitemap documents
\* and every max_depth, also when indexes list themselves or each other, as
\* long as every fetch returns or fails.
C18_ResolveTerminates == <>(rpc = "done")

\* C18 witness: the root is an index that lists itself, it was followed down to
\* depth max_depth >= 2, and the call has returned
C18_Witness ==
    /\ rpc = "done" /\ max_depth >= 2
    /\ RootUrl \in SitemapTexts(web[RootUrl])
    /\ <<RootUrl, max_depth>> \in fetched

(***************************************************************************)
(* What a failure below a document does to what was collected (checked     *)
(* under SpecResolve).                                                     *)
(***************************************************************************)
\* C19: when extract_urls_from_sitemap has returned, every non-empty location
\* of every document that was fetched and parsed is in the returned list,
\* whatever happened while the sitemaps it lists were followed: a child that
\* did not fetch, a child that did not parse or a <sitemap><loc> without text
\* takes nothing away that was collected from the document or from earlier
\* children.
C19_CollectedLocationsSurvive ==
    rpc = "done" =>
        \A f \in fetched :
            Parsed(web[f[1]]) => Range(extracted_urls(web[f[1]])) \subseteq Range(result)

(***************************************************************************)
(* batch_url_status_check on an empty list (checked under SpecBatch).      *)
(***************************************************************************)
\* C20: on an empty URL list, whatever max_workers, batch_size and
\* sampling_rate are, batch_url_status_check calls _check_url_status for no
\* URL, reports no progress, collects no result and does not raise.
C20_EmptyListGivesEmptyResult ==
    Len(urls) = 0 =>
        /\ bpc # "raised"
        /\ \A u \in DOMAIN calls : calls[u] = 0
        /\ progress = <<>>
        /\ all_results = <<>>

====
